---- MODULE Spec2Model ----
(***************************************************************************)
(* Model of the course-notes chatbot repository:                           *)
(*   chatbot.py        CourseNoteChatbot (index / query engine lifecycle,  *)
(*                     the interactive loop chat(), the entry point main)  *)
(*   test_queries.py   run_tests, the fixed-query batch runner             *)
(*   pdf_converter.py  convert_pdf_to_text, convert_all_pdfs_in_directory  *)
(* The third-party libraries (document reader, embedding, vector index,    *)
(* hosted model, PDF page extraction) are nondeterministic outcomes: each  *)
(* call either returns or raises.                                          *)
(***************************************************************************)
EXTENDS Integers, Sequences, FiniteSets, TLC

(* ------------------------------ bounds --------------------------------- *)
MaxCalls == 4
MaxLines == 3
MaxDocs == 2
MaxFiles == 2
MaxPages == 2

(* ------------------------- program constants --------------------------- *)
NumQueries == 10

(* ------------------- strings as sequences of characters ---------------- *)
UpperChars == <<"A","B","C","D","E","F","G","H","I","J","K","L","M",
                "N","O","P","Q","R","S","T","U","V","W","X","Y","Z">>
LowerChars == <<"a","b","c","d","e","f","g","h","i","j","k","l","m",
                "n","o","p","q","r","s","t","u","v","w","x","y","z">>
DigitChars == <<"0","1","2","3","4","5","6","7","8","9">>

LowerChar(c) ==
  IF \E i \in 1..26 : UpperChars[i] = c
    THEN LowerChars[CHOOSE i \in 1..26 : UpperChars[i] = c]
    ELSE c

\* str.lower()
lower(s) == [i \in 1..Len(s) |-> LowerChar(s[i])]

IsSpace(c) == c \in {" ", "\t", "\n", "\r"}

RECURSIVE lstrip(_)
lstrip(s) == IF s # <<>> /\ IsSpace(Head(s)) THEN lstrip(Tail(s)) ELSE s

RECURSIVE rstrip(_)
rstrip(s) ==
  IF s # <<>> /\ IsSpace(s[Len(s)]) THEN rstrip(SubSeq(s, 1, Len(s) - 1)) ELSE s

\* str.strip()
strip(s) == rstrip(lstrip(s))

\* str.endswith(suffix)
endswith(s, suffix) ==
  /\ Len(s) >= Len(suffix)
  /\ SubSeq(s, Len(s) - Len(suffix) + 1, Len(s)) = suffix

\* str(n) for n >= 0
RECURSIVE str(_)
str(n) ==
  IF n < 10 THEN <<DigitChars[n + 1]>>
  ELSE str(n \div 10) \o <<DigitChars[(n % 10) + 1]>>

(* ----------------------------- the state ------------------------------- *)
VARIABLES
  prog,          \* the entry point this process runs: "api", "main", "run_tests", "convert"
  dirExists,     \* os.path.exists("course_notes")
  apiKey,        \* GROQ_API_KEY is set in the environment
  constructed,   \* a CourseNoteChatbot object exists
  index,         \* self.index: None, or the identity of the index built
  query_engine,  \* self.query_engine: None, or the identity of the index it was made from
  calls,         \* number of method calls made on the object by the api client
  lastOp,        \* the method called last
  lastDocs,      \* number of documents the last build_index had in hand (-1: none)
  lastError,     \* the exception the last call raised ("none": it returned)
  engineCalls,   \* number of query_engine.query invocations
  answeredFrom,  \* identity of the index the last query_engine.query read
  chatPc,        \* chat(): "idle", "reading", "except", "done"
  eof,           \* input() has raised EOFError: the stream is exhausted
  linesRead,     \* number of lines input() has returned
  lastEvent,     \* what the last input() did: "line", "EOF", "KeyboardInterrupt"
  lastLine,      \* the last line input() returned
  askedLine,     \* ask was invoked for the last line
  caught,        \* the last exception chat() caught and reported
  mainPc,        \* chatbot main(): "start", "chat", "done", "crashed"
  helpPrinted,   \* main() printed the API-key help message
  testPc,        \* run_tests: "start", "loop", "summary", "done", "aborted"
  results,       \* run_tests: results
  successful,    \* run_tests: successful
  failed,        \* run_tests: failed
  askCount,      \* number of times ask was called per query
  returned,      \* per asked query, whether ask returned
  rate,          \* the success rate as printed
  convPc,        \* pdf_converter main(): "start", "loop", "done"
  pdf_files,     \* convert_all_pdfs_in_directory: pdf_files
  pos,           \* position of the for loop in pdf_files
  converted,     \* convert_all_pdfs_in_directory: converted
  failed_pdfs,   \* convert_all_pdfs_in_directory: failed
  attempts,      \* number of convert_pdf_to_text calls per file
  badFiles,      \* files whose conversion raised
  written,       \* text files written
  pages,         \* page texts of the PDF converted last
  convOk,        \* the last conversion returned a path
  text           \* text extracted by the last conversion

envVars  == <<prog, dirExists, apiKey>>
botVars  == <<constructed, index, query_engine, engineCalls, answeredFrom>>
callVars == <<calls, lastOp, lastDocs, lastError>>
chatVars == <<chatPc, eof, linesRead, lastEvent, lastLine, askedLine, caught>>
mainVars == <<mainPc, helpPrinted>>
testVars == <<testPc, results, successful, failed, askCount, returned, rate>>
convVars == <<convPc, pdf_files, pos, converted, failed_pdfs, attempts, badFiles,
              written, pages, convOk, text>>
vars == <<envVars, botVars, callVars, chatVars, mainVars, testVars, convVars>>

None == 0

(* ------------------------- CourseNoteChatbot --------------------------- *)

\* __init__: the key is the argument or the environment's; no key raises
\* ValueError; _configure_settings may raise (model download).
init_chatbot(keyArg, envKey, cfgOk) ==
  IF ~(keyArg \/ envKey) THEN [err |-> "ApiKeyRequired", made |-> FALSE]
  ELSE IF ~cfgOk THEN [err |-> "SettingsError", made |-> FALSE]
  ELSE [err |-> "none", made |-> TRUE]

\* load_notes: FileNotFoundError when the directory is missing; a reader
\* failure is caught and gives []; otherwise the n documents read.
load_notes(dirEx, readerOk, n) ==
  IF ~dirEx THEN [err |-> "FileNotFoundError", docs |-> -1]
  ELSE IF ~readerOk THEN [err |-> "none", docs |-> 0]
  ELSE [err |-> "none", docs |-> n]

\* build_index without the "if not documents" check.
build_index_NoEmptyCheck(given, nArg, dirEx, readerOk, n, embedOk, idx, fresh) ==
  LET l == IF given THEN [err |-> "none", docs |-> nArg]
           ELSE load_notes(dirEx, readerOk, n)
  IN IF l.err # "none" THEN [err |-> l.err, index |-> idx, docs |-> -1]
     ELSE IF ~embedOk THEN [err |-> "IndexBuildError", index |-> idx, docs |-> l.docs]
     ELSE [err |-> "none", index |-> fresh, docs |-> l.docs]

\* build_index(documents): given = documents is not None, nArg = len(documents);
\* fresh is the identity of the index VectorStoreIndex.from_documents makes.
build_index(given, nArg, dirEx, readerOk, n, embedOk, idx, fresh) ==
  LET l == IF given THEN [err |-> "none", docs |-> nArg]
           ELSE load_notes(dirEx, readerOk, n)
  IN IF l.err # "none" THEN [err |-> l.err, index |-> idx, docs |-> -1]
     ELSE IF l.docs = 0 THEN [err |-> "NoDocuments", index |-> idx, docs |-> 0]
     ELSE IF ~embedOk THEN [err |-> "IndexBuildError", index |-> idx, docs |-> l.docs]
     ELSE [err |-> "none", index |-> fresh, docs |-> l.docs]

\* create_query_engine without the "self.index is None" check.
create_query_engine_NoCheck(idx, qe) == [err |-> "none", qe |-> idx]

\* create_query_engine: raises when self.index is None, else makes the engine
\* from self.index.
create_query_engine(idx, qe) ==
  IF idx = None THEN [err |-> "IndexNotBuilt", qe |-> qe]
  ELSE [err |-> "none", qe |-> idx]

\* ask: lazily creates the engine, then queries it; a failure of the hosted
\* model propagates.
ask(idx, qe, engineOk) ==
  LET c == IF qe = None THEN create_query_engine(idx, qe)
           ELSE [err |-> "none", qe |-> qe]
  IN IF c.err # "none"
       THEN [err |-> c.err, qe |-> c.qe, queried |-> FALSE]
       ELSE [err |-> IF engineOk THEN "none" ELSE "EngineError",
             qe |-> c.qe, queried |-> TRUE]

\* The effect of one ask on the object.
AskEffect(r) ==
  /\ query_engine' = r.qe
  /\ engineCalls' = IF r.queried THEN engineCalls + 1 ELSE engineCalls
  /\ answeredFrom' = IF r.queried THEN r.qe ELSE answeredFrom
  /\ UNCHANGED <<constructed, index>>

ApiIdle == prog = "api" /\ chatPc \in {"idle", "done"} /\ calls < MaxCalls

Construct ==
  /\ ApiIdle /\ ~constructed
  /\ \E keyArg \in BOOLEAN, cfgOk \in BOOLEAN :
       LET r == init_chatbot(keyArg, apiKey, cfgOk) IN
       /\ constructed' = r.made
       /\ index' = None /\ query_engine' = None
       /\ calls' = calls + 1 /\ lastOp' = "__init__" /\ lastDocs' = -1
       /\ lastError' = r.err
  /\ UNCHANGED <<envVars, engineCalls, answeredFrom, chatVars, mainVars, testVars, convVars>>

CallBuildIndex ==
  /\ ApiIdle /\ constructed
  /\ \E given \in BOOLEAN, nArg \in 0..MaxDocs, readerOk \in BOOLEAN,
        n \in 0..MaxDocs, embedOk \in BOOLEAN :
       LET r == build_index(given, nArg, dirExists, readerOk, n, embedOk, index, calls + 1) IN
       /\ index' = r.index
       /\ calls' = calls + 1 /\ lastOp' = "build_index" /\ lastDocs' = r.docs
       /\ lastError' = r.err
  /\ UNCHANGED <<envVars, constructed, query_engine, engineCalls, answeredFrom,
                 chatVars, mainVars, testVars, convVars>>

CallCreateQueryEngine ==
  /\ ApiIdle /\ constructed
  /\ LET r == create_query_engine(index, query_engine) IN
       /\ query_engine' = r.qe
       /\ calls' = calls + 1 /\ lastOp' = "create_query_engine" /\ lastDocs' = -1
       /\ lastError' = r.err
  /\ UNCHANGED <<envVars, constructed, index, engineCalls, answeredFrom,
                 chatVars, mainVars, testVars, convVars>>

CallAsk ==
  /\ ApiIdle /\ constructed
  /\ \E engineOk \in BOOLEAN :
       LET r == ask(index, query_engine, engineOk) IN
       /\ AskEffect(r)
       /\ calls' = calls + 1 /\ lastOp' = "ask" /\ lastDocs' = -1
       /\ lastError' = r.err
  /\ UNCHANGED <<envVars, chatVars, mainVars, testVars, convVars>>

(* ------------------------------ chat() --------------------------------- *)

QuitCommands == { <<"q","u","i","t">>, <<"e","x","i","t">>, <<"q">> }

\* Lines the user may type (input() returns them without the newline).
SampleLines ==
  { <<"q","u","i","t">>, <<"Q","u","i","t">>, <<" ","Q","U","I","T"," ">>,
    <<"q">>, <<"\t","Q">>, <<"e","x","i","t">>, <<"e","X","i","T"," "," ">>,
    <<>>, <<" "," ">>,
    <<"q","u","i","t","s">>, <<"q"," ","q">>, <<"W","h","a","t","?">> }

\* The try body comparing the question without lower().
chat_line_NoLower(line, idx, qe, engineOk) ==
  LET question == strip(line) IN
  IF question \in QuitCommands
    THEN [next |-> "done", asked |-> FALSE, r |-> [err |-> "none", qe |-> qe, queried |-> FALSE]]
  ELSE IF question = <<>>
    THEN [next |-> "reading", asked |-> FALSE, r |-> [err |-> "none", qe |-> qe, queried |-> FALSE]]
  ELSE LET r == ask(idx, qe, engineOk) IN
       [next |-> IF r.err = "none" THEN "reading" ELSE "except", asked |-> TRUE, r |-> r]

\* The try body of one loop iteration on a line read: the termination
\* command breaks, a blank line continues, anything else is asked.
chat_line(line, idx, qe, engineOk) ==
  LET question == strip(line) IN
  IF lower(question) \in QuitCommands
    THEN [next |-> "done", asked |-> FALSE, r |-> [err |-> "none", qe |-> qe, queried |-> FALSE]]
  ELSE IF question = <<>>
    THEN [next |-> "reading", asked |-> FALSE, r |-> [err |-> "none", qe |-> qe, queried |-> FALSE]]
  ELSE LET r == ask(idx, qe, engineOk) IN
       [next |-> IF r.err = "none" THEN "reading" ELSE "except", asked |-> TRUE, r |-> r]

\* Where input() raising leaves the loop: KeyboardInterrupt breaks, any
\* other exception (EOFError is an Exception) goes to the generic handler.
chat_raise(exc) == IF exc = "KeyboardInterrupt" THEN "done" ELSE "except"

\* A generic handler that ends the session.
chat_except_Break == "done"

\* What the generic handler does after printing the error.
chat_except == "reading"

\* chat() returning also ends main(), which called it last.
MainAfterChat(next) == IF prog = "main" /\ next = "done" THEN "done" ELSE mainPc

\* The api client calls chat().
CallChat ==
  /\ ApiIdle /\ constructed
  /\ chatPc' = "reading"
  /\ calls' = calls + 1 /\ lastOp' = "chat" /\ lastDocs' = -1 /\ lastError' = "none"
  /\ UNCHANGED <<envVars, botVars, eof, linesRead, lastEvent, lastLine, askedLine,
                 caught, mainVars, testVars, convVars>>

\* One pass through the try block: input() and what follows it.
ChatRead ==
  /\ chatPc = "reading"
  /\ \/ \* input() returns a line
        /\ ~eof /\ linesRead < MaxLines
        /\ \E line \in SampleLines, engineOk \in BOOLEAN :
             LET c == chat_line(line, index, query_engine, engineOk) IN
             /\ chatPc' = c.next
             /\ AskEffect(c.r)
             /\ lastError' = c.r.err
             /\ askedLine' = c.asked
             /\ lastLine' = line
             /\ mainPc' = MainAfterChat(c.next)
        /\ lastEvent' = "line" /\ linesRead' = linesRead + 1
        /\ UNCHANGED eof
     \/ \* the user interrupts
        /\ chatPc' = chat_raise("KeyboardInterrupt")
        /\ lastEvent' = "KeyboardInterrupt" /\ lastError' = "none"
        /\ mainPc' = MainAfterChat(chat_raise("KeyboardInterrupt"))
        /\ UNCHANGED <<botVars, eof, linesRead, lastLine, askedLine>>
     \/ \* the input stream is exhausted: input() raises EOFError
        /\ chatPc' = chat_raise("EOFError")
        /\ eof' = TRUE
        /\ lastEvent' = "EOF" /\ lastError' = "EOFError"
        /\ mainPc' = MainAfterChat(chat_raise("EOFError"))
        /\ UNCHANGED <<botVars, linesRead, lastLine, askedLine>>
  /\ UNCHANGED <<envVars, calls, lastOp, lastDocs, caught, helpPrinted, testVars, convVars>>

\* except Exception as e: print(f"Error: {e}"), then the loop goes on.
ChatExcept ==
  /\ chatPc = "except"
  /\ caught' = lastError
  /\ chatPc' = chat_except
  /\ UNCHANGED <<envVars, botVars, callVars, eof, linesRead, lastEvent, lastLine,
                 askedLine, mainVars, testVars, convVars>>

(* --------------------------- chatbot main() ---------------------------- *)

\* main() up to the interactive loop. setup_example_notes is defined nowhere:
\* calling it when course_notes is missing raises NameError outside the try.
main(dirEx, envKey, cfgOk, readerOk, n, embedOk) ==
  IF ~dirEx
    THEN [pc |-> "crashed", err |-> "NameError", help |-> FALSE, made |-> FALSE, index |-> None]
  ELSE IF ~envKey
    THEN [pc |-> "done", err |-> "none", help |-> TRUE, made |-> FALSE, index |-> None]
  ELSE LET c == init_chatbot(envKey, envKey, cfgOk) IN
    IF c.err # "none"
      THEN [pc |-> "done", err |-> c.err, help |-> FALSE, made |-> FALSE, index |-> None]
    ELSE LET l == load_notes(dirEx, readerOk, n) IN
    IF l.err # "none"
      THEN [pc |-> "done", err |-> l.err, help |-> FALSE, made |-> TRUE, index |-> None]
    ELSE LET b == build_index(TRUE, l.docs, dirEx, readerOk, n, embedOk, None, 1) IN
      [pc |-> IF b.err = "none" THEN "chat" ELSE "done", err |-> b.err,
       help |-> FALSE, made |-> TRUE, index |-> b.index]

Main ==
  /\ prog = "main" /\ mainPc = "start"
  /\ \E cfgOk \in BOOLEAN, readerOk \in BOOLEAN, n \in 0..MaxDocs, embedOk \in BOOLEAN :
       LET m == main(dirExists, apiKey, cfgOk, readerOk, n, embedOk) IN
       /\ mainPc' = m.pc
       /\ lastError' = m.err
       /\ helpPrinted' = m.help
       /\ constructed' = m.made
       /\ index' = m.index
       /\ chatPc' = IF m.pc = "chat" THEN "reading" ELSE chatPc
  /\ lastOp' = "main"
  /\ UNCHANGED <<envVars, query_engine, engineCalls, answeredFrom, calls, lastDocs,
                 eof, linesRead, lastEvent, lastLine, askedLine, caught, testVars, convVars>>

(* ----------------------------- run_tests ------------------------------- *)

\* The initialisation try block: any exception is printed and run_tests
\* returns without asking anything.
tests_init(dirEx, envKey, cfgOk, readerOk, n, embedOk) ==
  LET c == init_chatbot(envKey, envKey, cfgOk) IN
  IF c.err # "none" THEN [pc |-> "aborted", err |-> c.err, made |-> FALSE, index |-> None]
  ELSE LET l == load_notes(dirEx, readerOk, n) IN
  IF l.err # "none" THEN [pc |-> "aborted", err |-> l.err, made |-> TRUE, index |-> None]
  ELSE LET b == build_index(TRUE, l.docs, dirEx, readerOk, n, embedOk, None, 1) IN
    [pc |-> IF b.err = "none" THEN "loop" ELSE "aborted", err |-> b.err,
     made |-> TRUE, index |-> b.index]

\* The entry the loop body appends for query i, given what ask did.
test_entry(i, err) ==
  [query |-> i, status |-> IF err = "none" THEN "success" ELSE "failed"]

\* A loop that stops at the first failed query.
test_next_AbortOnFailure(res) ==
  IF Len(res) < NumQueries /\ (res = <<>> \/ res[Len(res)].status = "success")
    THEN Len(res) + 1 ELSE 0

\* The query the loop takes next, or 0 when the loop is over.
test_next(res) == IF Len(res) < NumQueries THEN Len(res) + 1 ELSE 0

\* f"{(successful/len(test_queries)*100):.1f}", as characters; the quotient
\* is a whole number of tenths of a percent for the ten fixed queries.
success_rate(ok, total) ==
  LET tenths == (ok * 1000) \div total
  IN str(tenths \div 10) \o <<".">> \o str(tenths % 10)

TestsInit ==
  /\ prog = "run_tests" /\ testPc = "start"
  /\ \E cfgOk \in BOOLEAN, readerOk \in BOOLEAN, n \in 0..MaxDocs, embedOk \in BOOLEAN :
       LET t == tests_init(dirExists, apiKey, cfgOk, readerOk, n, embedOk) IN
       /\ testPc' = t.pc
       /\ lastError' = t.err
       /\ constructed' = t.made
       /\ index' = t.index
  /\ lastOp' = "run_tests"
  /\ UNCHANGED <<envVars, query_engine, engineCalls, answeredFrom, calls, lastDocs,
                 chatVars, mainVars, results, successful, failed, askCount, returned,
                 rate, convVars>>

TestsQuery ==
  /\ prog = "run_tests" /\ testPc = "loop"
  /\ test_next(results) # 0
  /\ \E engineOk \in BOOLEAN :
       LET i == test_next(results)
           r == ask(index, query_engine, engineOk)
           e == test_entry(i, r.err)
       IN /\ AskEffect(r)
          /\ lastError' = r.err
          /\ results' = Append(results, e)
          /\ successful' = IF e.status = "success" THEN successful + 1 ELSE successful
          /\ failed' = IF e.status = "success" THEN failed ELSE failed + 1
          /\ askCount' = [askCount EXCEPT ![i] = @ + 1]
          /\ returned' = Append(returned, r.err = "none")
  /\ lastOp' = "ask"
  /\ UNCHANGED <<envVars, calls, lastDocs, chatVars, mainVars, testPc, rate, convVars>>

\* After the loop: the transcript is written and the summary printed.
TestsSummary ==
  /\ prog = "run_tests" /\ testPc = "loop"
  /\ test_next(results) = 0
  /\ rate' = success_rate(successful, NumQueries)
  /\ testPc' = "done"
  /\ UNCHANGED <<envVars, botVars, callVars, chatVars, mainVars, results, successful,
                 failed, askCount, returned, convVars>>

(* --------------------------- pdf_converter ----------------------------- *)

FileNames ==
  { <<"a",".","p","d","f">>, <<"B",".","P","D","F">>, <<"c",".","P","d","f">>,
    <<"n",".","t","x","t">> }

\* What os.walk may list: distinct files, in any order.
DirListings ==
  { s \in UNION { [1..k -> FileNames] : k \in 0..MaxFiles } :
      \A i, j \in 1..Len(s) : s[i] = s[j] => i = j }

\* Text page.extract_text() may return; the empty string is a page with no
\* extractable text.
PageTexts == { <<>>, <<"a">>, <<"b","\n","c">> }

PageSeqs == UNION { [1..k -> PageTexts] : k \in 0..MaxPages }

\* f"\n--- Page {k} ---\n"
page_marker(k) ==
  <<"\n","-","-","-"," ","P","a","g","e"," ">> \o str(k) \o <<" ","-","-","-","\n">>

\* The for loop over enumerate(pdf.pages), from (0-based) page i on.
RECURSIVE extract_from(_, _)
extract_from(pgs, i) ==
  IF i >= Len(pgs) THEN <<>>
  ELSE (IF pgs[i + 1] # <<>> THEN page_marker(i + 1) \o pgs[i + 1] ELSE <<>>)
       \o extract_from(pgs, i + 1)

\* The loop numbering only the pages that have text.
RECURSIVE extract_renumbered(_, _, _)
extract_renumbered(pgs, i, k) ==
  IF i >= Len(pgs) THEN <<>>
  ELSE IF pgs[i + 1] # <<>>
    THEN page_marker(k) \o pgs[i + 1] \o extract_renumbered(pgs, i + 1, k + 1)
    ELSE extract_renumbered(pgs, i + 1, k)

extract_text_Renumbered(pgs) == extract_renumbered(pgs, 0, 1)

extract_text(pgs) == extract_from(pgs, 0)

\* Path(pdf_path).stem: the name without its last suffix.
stem(name) ==
  LET dots == { i \in 2..Len(name) : name[i] = "." }
  IN IF dots = {} THEN name
     ELSE SubSeq(name, 1, (CHOOSE i \in dots : \A j \in dots : j <= i) - 1)

\* convert_pdf_to_text: stage names where an exception is raised, if any
\* ("open", "extract", "write"); the result is the output path, or the
\* empty path for None.
convert_pdf_to_text(name, pgs, stage) ==
  IF stage # "ok" THEN [result |-> <<>>, text |-> <<>>, wrote |-> FALSE]
  ELSE [result |-> stem(name) \o <<".","t","x","t">>, text |-> extract_text(pgs),
        wrote |-> TRUE]

\* The filter of the directory walk.
find_pdfs(listing) ==
  SelectSeq(listing, LAMBDA f : endswith(lower(f), <<".","p","d","f">>))

\* Counting that drops a failed conversion.
count_result_DropFailure(result, conv, fail) ==
  IF result # <<>> THEN [converted |-> conv + 1, failed |-> fail]
  ELSE [converted |-> conv, failed |-> fail]

\* The loop body's counting: if result: converted += 1 else: failed += 1.
count_result(result, conv, fail) ==
  IF result # <<>> THEN [converted |-> conv + 1, failed |-> fail]
  ELSE [converted |-> conv, failed |-> fail + 1]

\* The position after one iteration.
conv_next(p) == p + 1

\* main() of the converter: a missing directory returns at once, otherwise
\* convert_all_pdfs_in_directory walks it.
ConvMain ==
  /\ prog = "convert" /\ convPc = "start"
  /\ IF ~dirExists
       THEN /\ convPc' = "done"
            /\ UNCHANGED <<pdf_files, pos>>
       ELSE \E listing \in DirListings :
            /\ pdf_files' = find_pdfs(listing)
            /\ pos' = 1
            /\ convPc' = "loop"
  /\ converted' = 0 /\ failed_pdfs' = 0
  /\ UNCHANGED <<envVars, botVars, callVars, chatVars, mainVars, testVars,
                 attempts, badFiles, written, pages, convOk, text>>

ConvStep ==
  /\ prog = "convert" /\ convPc = "loop"
  /\ pos <= Len(pdf_files)
  /\ \E pgs \in PageSeqs, stage \in {"ok", "open", "extract", "write"} :
       LET name == pdf_files[pos]
           r == convert_pdf_to_text(name, pgs, stage)
           c == count_result(r.result, converted, failed_pdfs)
       IN /\ converted' = c.converted
          /\ failed_pdfs' = c.failed
          /\ attempts' = [attempts EXCEPT ![name] = @ + 1]
          /\ badFiles' = IF stage # "ok" THEN badFiles \cup {name} ELSE badFiles
          /\ written' = IF r.wrote THEN written \cup {r.result} ELSE written
          /\ pages' = pgs
          /\ convOk' = (stage = "ok")
          /\ text' = r.text
  /\ pos' = conv_next(pos)
  /\ UNCHANGED <<envVars, botVars, callVars, chatVars, mainVars, testVars, convPc, pdf_files>>

\* The loop is over: the summary is printed.
ConvFinish ==
  /\ prog = "convert" /\ convPc = "loop"
  /\ pos > Len(pdf_files)
  /\ convPc' = "done"
  /\ UNCHANGED <<envVars, botVars, callVars, chatVars, mainVars, testVars, pdf_files, pos,
                 converted, failed_pdfs, attempts, badFiles, written, pages, convOk, text>>

(* -------------------------- the specification -------------------------- *)

Progs == {"api", "main", "run_tests", "convert"}

Init ==
  /\ prog \in Progs /\ dirExists \in BOOLEAN /\ apiKey \in BOOLEAN
  /\ constructed = FALSE /\ index = None /\ query_engine = None
  /\ engineCalls = 0 /\ answeredFrom = None
  /\ calls = 0 /\ lastOp = "none" /\ lastDocs = -1 /\ lastError = "none"
  /\ chatPc = "idle" /\ eof = FALSE /\ linesRead = 0 /\ lastEvent = "none"
  /\ lastLine = <<>> /\ askedLine = FALSE /\ caught = "none"
  /\ mainPc = "start" /\ helpPrinted = FALSE
  /\ testPc = "start" /\ results = <<>> /\ successful = 0 /\ failed = 0
  /\ askCount = [i \in 1..NumQueries |-> 0] /\ returned = <<>> /\ rate = <<>>
  /\ convPc = "start" /\ pdf_files = <<>> /\ pos = 0 /\ converted = 0 /\ failed_pdfs = 0
  /\ attempts = [f \in FileNames |-> 0] /\ badFiles = {} /\ written = {}
  /\ pages = <<>> /\ convOk = FALSE /\ text = <<>>

Next ==
  \/ Construct
  \/ CallBuildIndex
  \/ CallCreateQueryEngine
  \/ CallAsk
  \/ CallChat
  \/ ChatRead
  \/ ChatExcept
  \/ Main
  \/ TestsInit
  \/ TestsQuery
  \/ TestsSummary
  \/ ConvMain
  \/ ConvStep
  \/ ConvFinish

Spec == Init /\ [][Next]_vars

\* The interpreter keeps running the loop: a step of chat() that can be
\* taken is taken.
FairSpec == Spec /\ WF_vars(ChatRead) /\ WF_vars(ChatExcept)

(* ============================== claims ================================= *)

\* An ask step: a call of ask by the api client, or by chat() for a line.
AskStep ==
  \/ calls' # calls /\ lastOp' = "ask"
  \/ linesRead' # linesRead /\ askedLine'

\* C1: while index is None, every ask raises the 'Index not built' error,
\* the query engine is not invoked, and index and query_engine are still
\* None afterwards.
C1_AskBeforeBuildFails ==
  [][(AskStep /\ index = None) =>
       /\ lastError' = "IndexNotBuilt"
       /\ engineCalls' = engineCalls
       /\ index' = None
       /\ query_engine' = None]_vars

\* An ask made after a build_index that failed, on an object with no index.
C1_Witness ==
  /\ prog = "api" /\ calls >= 3 /\ lastOp = "ask"
  /\ index = None /\ lastError = "IndexNotBuilt"

\* C2: build_index with zero documents (an empty list given, or None given
\* and load_notes returning an empty list) raises the explicit error and
\* leaves index as it was.
C2_EmptyBuildFails ==
  [][(calls' # calls /\ lastOp' = "build_index" /\ lastDocs' = 0) =>
       /\ lastError' = "NoDocuments"
       /\ index' = index]_vars

\* A build_index with zero documents on an object that holds an index.
C2_Witness ==
  /\ lastOp = "build_index" /\ lastDocs = 0 /\ lastError = "NoDocuments"
  /\ index # None

\* The lines of SampleLines that, trimmed, are quit, exit or q in some case.
TerminationLines ==
  { <<"q","u","i","t">>, <<"Q","u","i","t">>, <<" ","Q","U","I","T"," ">>,
    <<"q">>, <<"\t","Q">>, <<"e","x","i","t">>, <<"e","X","i","T"," "," ">> }

\* C3: a line that is a termination command ends the loop on that line and
\* ask is not invoked for it, whatever was entered before.
C3_QuitTerminates ==
  [][(linesRead' # linesRead /\ lastLine' \in TerminationLines) =>
       /\ chatPc' = "done"
       /\ ~askedLine'
       /\ engineCalls' = engineCalls
       /\ lastError' = "none"]_vars

\* "Quit" typed after an earlier question was answered.
C3_Witness ==
  /\ chatPc = "done" /\ lastEvent = "line" /\ lastLine = <<"Q","u","i","t">>
  /\ linesRead >= 2 /\ engineCalls >= 1

\* C4: an error raised by ask inside chat() is caught and reported, the
\* session goes on to read the next line, and the loop ends only on a
\* termination command or a keyboard interruption.
C4_ErrorKeepsSession ==
  [][/\ (chatPc = "reading" /\ linesRead' # linesRead /\ askedLine' /\ lastError' # "none")
          => chatPc' = "except"
     /\ chatPc = "except" => (chatPc' = "reading" /\ caught' = lastError)
     /\ (chatPc # "done" /\ chatPc' = "done")
          => \/ lastEvent' = "KeyboardInterrupt"
             \/ lastEvent' = "line" /\ lastLine' \in TerminationLines]_vars

\* An engine error was caught, and a later line was read and answered.
C4_Witness ==
  /\ chatPc = "reading" /\ caught = "EngineError"
  /\ lastEvent = "line" /\ askedLine /\ lastError = "none" /\ linesRead >= 2

\* C5: run_tests asks each of the ten queries exactly once in order, keeps
\* one entry per query whose status is success iff ask returned, counts
\* successful + failed = 10, and reports 100.0 when all ten succeed.
C5_BatchRecordsEveryQuery ==
  (prog = "run_tests" /\ testPc \in {"loop", "done"}) =>
    /\ Len(results) <= NumQueries /\ Len(returned) = Len(results)
    /\ \A k \in 1..NumQueries : askCount[k] = IF k <= Len(results) THEN 1 ELSE 0
    /\ \A k \in 1..Len(results) :
         /\ results[k].query = k
         /\ results[k].status = "success" <=> returned[k]
         /\ results[k].status \in {"success", "failed"}
    /\ successful = Cardinality({k \in 1..Len(results) : returned[k]})
    /\ successful + failed = Len(results)
    /\ testPc = "done" =>
         /\ Len(results) = NumQueries
         /\ successful + failed = NumQueries
         /\ (\A k \in 1..NumQueries : returned[k]) =>
              /\ \A k \in 1..NumQueries : results[k].status = "success"
              /\ rate = <<"1","0","0",".","0">>

\* A finished batch whose first query failed and whose later ones were asked.
C5_Witness ==
  /\ testPc = "done" /\ results[1].status = "failed"
  /\ successful >= 1 /\ failed >= 2

\* C6: a failed conversion does not abort the batch: every PDF found is
\* attempted exactly once, converted + failed is the number of PDFs found,
\* and failed is the number of files whose conversion failed.
C6_BatchCountsEveryPdf ==
  (prog = "convert" /\ convPc \in {"loop", "done"} /\ dirExists) =>
    /\ \A k \in 1..Len(pdf_files) :
         attempts[pdf_files[k]] = IF k < pos THEN 1 ELSE 0
    /\ converted + failed_pdfs = pos - 1
    /\ failed_pdfs = Cardinality(badFiles)
    /\ \A f \in badFiles : stem(f) \o <<".","t","x","t">> \notin written
    /\ convPc = "done" =>
         /\ pos = Len(pdf_files) + 1
         /\ converted + failed_pdfs = Len(pdf_files)

\* A finished batch whose first PDF failed and whose second was converted.
C6_Witness ==
  /\ convPc = "done" /\ Len(pdf_files) >= 2
  /\ pdf_files[1] \in badFiles /\ converted >= 1 /\ failed_pdfs >= 1

\* C7: with no API key, main() exits early with the help message and never
\* constructs the chatbot, builds the index or starts the loop, whether or
\* not course_notes exists.
C7_NoKeyExitsWithHelp ==
  (prog = "main" /\ ~apiKey /\ mainPc # "start") =>
    /\ mainPc = "done" /\ helpPrinted
    /\ ~constructed /\ index = None /\ chatPc = "idle"

\* '--- Page k ---'
MarkerLine(k) ==
  <<"-","-","-"," ","P","a","g","e"," ">> \o str(k) \o <<" ","-","-","-">>

IsAt(t, p, w) == p + Len(w) - 1 <= Len(t) /\ SubSeq(t, p, p + Len(w) - 1) = w

\* Where a marker stands in the extracted text, and the page it names.
MarkerOccurrences ==
  { o \in (1..Len(text)) \X (0..(Len(pages) + 1)) : IsAt(text, o[1], MarkerLine(o[2])) }

NonEmptyPages == { k \in 1..Len(pages) : pages[k] # <<>> }

RECURSIVE SumLen(_)
SumLen(S) ==
  IF S = {} THEN 0
  ELSE LET k == CHOOSE x \in S : TRUE
       IN Len(MarkerLine(k)) + 2 + Len(pages[k]) + SumLen(S \ {k})

\* C8: the extracted text holds exactly one marker per page that has text,
\* numbered with the source page number, in ascending order, each followed
\* at once by that page's text; a page without text contributes nothing.
C8_PageMarkers ==
  (prog = "convert" /\ convOk) =>
    /\ { o[2] : o \in MarkerOccurrences } = NonEmptyPages
    /\ Cardinality(MarkerOccurrences) = Cardinality(NonEmptyPages)
    /\ \A o \in MarkerOccurrences :
         /\ o[2] \in 1..Len(pages)
         /\ IsAt(text, o[1] + Len(MarkerLine(o[2])), <<"\n">> \o pages[o[2]])
    /\ \A o1, o2 \in MarkerOccurrences : o1[1] < o2[1] <=> o1[2] < o2[2]
    /\ Len(text) = SumLen(NonEmptyPages)

\* A PDF whose first page has no text and whose second page has.
C8_Witness ==
  /\ prog = "convert" /\ convOk /\ Len(pages) >= 2
  /\ pages[1] = <<>> /\ pages[2] # <<>>

\* C9: whenever query_engine is set, it was made from the index that
\* self.index holds now.
C9_EngineFromCurrentIndex ==
  /\ query_engine # None => query_engine = index
  /\ (lastOp = "ask" /\ lastError = "none") => answeredFrom = index

\* C10: once input() has raised end-of-file, chat() terminates.
C10_EofTerminates == eof ~> (chatPc = "done")

====
